---- MODULE Spec2Model ----
(***************************************************************************)
(* Model of src/main.rs: the balance ledger (struct Balance and its five   *)
(* operations), the transaction history and the command processor do_cmd,  *)
(* driven one command at a time as the consumer loop of main does (Spec),  *)
(* and main with its producer and consumer tasks and the channel between   *)
(* them, do_cmd taken guard by guard (Pipeline, FairPipeline).             *)
(***************************************************************************)
EXTENDS Integers, Sequences, FiniteSets, TLC

\* ------------------------------------------------------------------ bounds
\* Transaction ids are 1..MaxTx, client ids are 1..MaxClient.
MaxTx == 2

MaxClient == 2

TxIds == 1..MaxTx

ClientIds == 1..MaxClient

\* ------------------------------------------------------- command kinds
DEPOSIT == "deposit"

WITHDRAWAL == "withdrawal"

DISPUTE == "dispute"

RESOLVE == "resolve"

CHARGEBACK == "chargeback"

\* A kind that is none of the five constants (the `_` arm of the matches).
OTHER_KIND == "transfer"

\* ------------------------------------------------------------- Decimal
\* rust_decimal::Decimal: an integer mantissa m and a scale s, value m / 10^s.
RECURSIVE Pow10(_)
Pow10(n) ==
    IF n = 0 THEN 1 ELSE 10 * Pow10(n - 1)

MaxOf(a, b) ==
    IF a >= b THEN a ELSE b

Dec(m, s) ==
    [m |-> m, s |-> s]

\* The mantissa of d rescaled to scale s >= d.s.
Rescale(d, s) ==
    d.m * Pow10(s - d.s)

\* Decimal `+`: operands are aligned to the larger scale, which the sum keeps.
DecAdd(a, b) ==
    LET s == MaxOf(a.s, b.s)
    IN  Dec(Rescale(a, s) + Rescale(b, s), s)

\* Decimal `-`.
DecSub(a, b) ==
    LET s == MaxOf(a.s, b.s)
    IN  Dec(Rescale(a, s) - Rescale(b, s), s)

\* Decimal `<`, `<=` and `==` compare values, not representations.
DecLt(a, b) ==
    LET s == MaxOf(a.s, b.s)
    IN  Rescale(a, s) < Rescale(b, s)

DecLe(a, b) ==
    LET s == MaxOf(a.s, b.s)
    IN  Rescale(a, s) <= Rescale(b, s)

DecEq(a, b) ==
    LET s == MaxOf(a.s, b.s)
    IN  Rescale(a, s) = Rescale(b, s)

ZERO_AMOUNT == Dec(0, 0)

\* ------------------------------------------------- amount literals
\* The amount column is a string: a sequence of characters.
Digits == {"0", "1", "2", "3", "4", "5", "6", "7", "8", "9"}

DigitVal(c) ==
    CASE c = "0" -> 0 [] c = "1" -> 1 [] c = "2" -> 2 [] c = "3" -> 3
      [] c = "4" -> 4 [] c = "5" -> 5 [] c = "6" -> 6 [] c = "7" -> 7
      [] c = "8" -> 8 [] c = "9" -> 9

\* Scan of the characters after the sign: acc is [ok, m, s, point, digits].
\* ScanChar is the step for one character c.
ScanChar(acc, c) ==
    IF c \in Digits
    THEN [acc EXCEPT !.m = 10 * acc.m + DigitVal(c),
                     !.s = IF acc.point THEN acc.s + 1 ELSE acc.s,
                     !.digits = acc.digits + 1]
    ELSE IF c = "." /\ ~acc.point
    THEN [acc EXCEPT !.point = TRUE]
    ELSE [acc EXCEPT !.ok = FALSE]

\* (The step is taken on the value a of the accumulator, computed once.)
RECURSIVE ScanDigits(_, _)
ScanDigits(str, acc) ==
    IF Len(str) = 0 \/ ~acc.ok THEN acc
    ELSE CHOOSE r \in {ScanDigits(Tail(str), ScanChar(a, Head(str))) : a \in {acc}} :
             TRUE

\* Decimal::from_str_radix(n, 10): an optional sign, digits, an optional point
\* and digits; the scale is the number of digits written after the point.
from_str_radix(n) ==
    LET neg  == Len(n) > 0 /\ Head(n) = "-"
        body == IF Len(n) > 0 /\ Head(n) \in {"-", "+"} THEN Tail(n) ELSE n
        acc  == ScanDigits(body, [ok |-> TRUE, m |-> 0, s |-> 0,
                                  point |-> FALSE, digits |-> 0])
    IN  IF acc.ok /\ acc.digits > 0
        THEN [err |-> "Ok", val |-> Dec(IF neg THEN 0 - acc.m ELSE acc.m, acc.s)]
        ELSE [err |-> "Decimal", val |-> ZERO_AMOUNT]

\* The largest scale to_decimal accepts.
MAX_SCALE == 4

to_decimal_loose(n) ==
    from_str_radix(n)

to_decimal(n) ==
    LET d == from_str_radix(n)
    IN  IF d.err # "Ok" THEN d
        ELSE IF d.val.s > MAX_SCALE
        THEN [err |-> "DecimalFormatError", val |-> ZERO_AMOUNT]
        ELSE d

\* ------------------------------------------------------------- Balance
Balance_new ==
    [avail |-> ZERO_AMOUNT, held |-> ZERO_AMOUNT, locked |-> FALSE]

bail_if_locked_never(balance) ==
    "Ok"

bail_if_locked(balance) ==
    IF balance.locked THEN "LockedBalance" ELSE "Ok"

check_amount_nonneg(amount) ==
    IF DecLt(amount, ZERO_AMOUNT) THEN "AmountNotPositive" ELSE "Ok"

check_amount(amount) ==
    IF DecLe(amount, ZERO_AMOUNT) THEN "AmountNotPositive" ELSE "Ok"

\* Each operation returns [err, bal]: the Result<Balance> of the trait method.
Failed(e, self) ==
    [err |-> e, bal |-> self]

deposit(self, amount) ==
    IF bail_if_locked(self) # "Ok" THEN Failed(bail_if_locked(self), self)
    ELSE [err |-> "Ok", bal |-> [self EXCEPT !.avail = DecAdd(self.avail, amount)]]

withdrawal_unchecked(self, amount) ==
    IF bail_if_locked(self) # "Ok" THEN Failed(bail_if_locked(self), self)
    ELSE [err |-> "Ok", bal |-> [self EXCEPT !.avail = DecSub(self.avail, amount)]]

withdrawal(self, amount) ==
    IF bail_if_locked(self) # "Ok" THEN Failed(bail_if_locked(self), self)
    ELSE IF DecLt(self.avail, amount)
    THEN Failed("FundsInsufficientForGivenOperation", self)
    ELSE [err |-> "Ok", bal |-> [self EXCEPT !.avail = DecSub(self.avail, amount)]]

dispute(self, amount) ==
    IF bail_if_locked(self) # "Ok" THEN Failed(bail_if_locked(self), self)
    ELSE IF DecLt(self.avail, amount)
    THEN Failed("FundsInsufficientForGivenOperation", self)
    ELSE [err |-> "Ok",
          bal |-> [self EXCEPT !.avail = DecSub(self.avail, amount),
                               !.held = DecAdd(self.held, amount)]]

resolve(self, amount) ==
    IF bail_if_locked(self) # "Ok" THEN Failed(bail_if_locked(self), self)
    ELSE IF DecLt(self.held, amount)
    THEN Failed("FundsInsufficientForGivenOperation", self)
    ELSE [err |-> "Ok",
          bal |-> [self EXCEPT !.avail = DecAdd(self.avail, amount),
                               !.held = DecSub(self.held, amount)]]

chargeback_from_available(self, amount) ==
    IF bail_if_locked(self) # "Ok" THEN Failed(bail_if_locked(self), self)
    ELSE IF DecLt(self.held, amount)
    THEN Failed("FundsInsufficientForGivenOperation", self)
    ELSE [err |-> "Ok",
          bal |-> [avail |-> DecSub(self.avail, amount),
                   held |-> DecSub(self.held, amount),
                   locked |-> TRUE]]

chargeback(self, amount) ==
    IF bail_if_locked(self) # "Ok" THEN Failed(bail_if_locked(self), self)
    ELSE IF DecLt(self.held, amount)
    THEN Failed("FundsInsufficientForGivenOperation", self)
    ELSE [err |-> "Ok",
          bal |-> [avail |-> self.avail,
                   held |-> DecSub(self.held, amount),
                   locked |-> TRUE]]

\* ------------------------------------------------------------- Command
\* Option<T> is a sequence: << >> is None, <<v>> is Some(v).
None == << >>

Some(v) == <<v>>

\* The amount strings the input rows carry: "0", "-1", "1000.0001",
\* "499.9999", "1000.00000", "-0.00001" and the unparsable "x".
LIT_ZERO == <<"0">>

LIT_NEG == <<"-", "1">>

LIT_A == <<"1", "0", "0", "0", ".", "0", "0", "0", "1">>

LIT_B == <<"4", "9", "9", ".", "9", "9", "9", "9">>

LIT_OVER == <<"1", "0", "0", "0", ".", "0", "0", "0", "0", "0">>

LIT_NEG_OVER == <<"-", "0", ".", "0", "0", "0", "0", "1">>

LIT_BAD == <<"x">>

Literals ==
    {LIT_ZERO, LIT_NEG, LIT_A, LIT_B, LIT_OVER, LIT_NEG_OVER, LIT_BAD}

Amounts == {None} \cup {Some(l) : l \in Literals}

Kinds == {DEPOSIT, WITHDRAWAL, DISPUTE, RESOLVE, CHARGEBACK, OTHER_KIND}

Command(t, c, tx, a) ==
    [type_ |-> t, client_id |-> c, tx_id |-> tx, amount |-> a]

\* The rows of kind t: rows of the dispute family may carry an amount or not.
Commands(t) ==
    { Command(t, c, tx, a) : c \in ClientIds, tx \in TxIds,
        a \in IF t \in {DEPOSIT, WITHDRAWAL} THEN Amounts ELSE {None, Some(LIT_A)} }

Transaction(t, c, a, d) ==
    [type_ |-> t, client_id |-> c, amount |-> a, in_dispute |-> d]

\* ---------------------------------------------------------------- do_cmd
\* "check the transaction logic first": the three arms of the first match,
\* each on the history read guard.
validate_posting_any(cmd, guard) ==
    "Ok"

validate_posting(cmd, guard) ==
    IF cmd.tx_id \in DOMAIN guard THEN "TransactionAlreadyExist" ELSE "Ok"

validate_dispute_client_first(cmd, guard) ==
    IF cmd.tx_id \in DOMAIN guard
    THEN LET tx == guard[cmd.tx_id]
         IN  IF tx.client_id # cmd.client_id THEN "ReferenceTransactionIncorrect"
             ELSE IF tx.type_ # DEPOSIT THEN "ReferenceTransactionTypeIncorrect"
             ELSE IF tx.in_dispute THEN "TransactionAlreadyInDispute"
             ELSE "Ok"
    ELSE "ReferenceTransactionNotFound"

validate_dispute(cmd, guard) ==
    IF cmd.tx_id \in DOMAIN guard
    THEN LET tx == guard[cmd.tx_id]
         IN  IF tx.type_ # DEPOSIT THEN "ReferenceTransactionTypeIncorrect"
             ELSE IF tx.client_id # cmd.client_id THEN "ReferenceTransactionIncorrect"
             ELSE IF tx.in_dispute THEN "TransactionAlreadyInDispute"
             ELSE "Ok"
    ELSE "ReferenceTransactionNotFound"

validate_settle_any_state(cmd, guard) ==
    IF cmd.tx_id \in DOMAIN guard THEN "Ok" ELSE "ReferenceTransactionNotFound"

validate_settle(cmd, guard) ==
    IF cmd.tx_id \in DOMAIN guard
    THEN IF ~guard[cmd.tx_id].in_dispute
         THEN "ReferenceTransactionStateIncorrect"
         ELSE "Ok"
    ELSE "ReferenceTransactionNotFound"

check_transaction(cmd, guard) ==
    CASE cmd.type_ \in {DEPOSIT, WITHDRAWAL} -> validate_posting(cmd, guard)
      [] cmd.type_ = DISPUTE -> validate_dispute(cmd, guard)
      [] cmd.type_ \in {RESOLVE, CHARGEBACK} -> validate_settle(cmd, guard)
      [] OTHER -> "UnknownTransationType"

resolve_amount_from_command(cmd, history) ==
    IF cmd.amount = None
    THEN [err |-> "Ok",
          amount |-> IF cmd.type_ \in {DISPUTE, RESOLVE, CHARGEBACK}
                        /\ cmd.tx_id \in DOMAIN history
                     THEN history[cmd.tx_id].amount ELSE None]
    ELSE LET d == to_decimal(cmd.amount[1])
         IN  IF d.err # "Ok" THEN [err |-> d.err, amount |-> None]
             ELSE [err |-> "Ok", amount |-> Some(d.val)]

\* "check if amount is available for an operation": [err, amount], amount an
\* Option<Decimal>. Only evaluated for the five known kinds.
resolve_amount(cmd, history) ==
    IF cmd.type_ \in {DISPUTE, RESOLVE, CHARGEBACK}
    THEN [err |-> "Ok",
          amount |-> IF cmd.tx_id \in DOMAIN history
                     THEN history[cmd.tx_id].amount ELSE None]
    ELSE IF cmd.amount = None THEN [err |-> "Ok", amount |-> None]
    ELSE LET d == to_decimal(cmd.amount[1])
         IN  IF d.err # "Ok" THEN [err |-> d.err, amount |-> None]
             ELSE [err |-> "Ok", amount |-> Some(d.val)]

\* The second match: the ledger operation of the command's kind.
new_balance(t, balance, amount) ==
    CASE t = DEPOSIT -> deposit(balance, amount)
      [] t = WITHDRAWAL -> withdrawal(balance, amount)
      [] t = DISPUTE -> dispute(balance, amount)
      [] t = RESOLVE -> resolve(balance, amount)
      [] t = CHARGEBACK -> chargeback(balance, amount)

\* p.entry(client_id).or_insert_with(Balance::new): the map with the entry.
or_insert(p, client_id) ==
    IF client_id \in DOMAIN p THEN p ELSE (client_id :> Balance_new) @@ p

update_history_forget_chargeback(cmd, amount, guard) ==
    CASE cmd.type_ = DISPUTE ->
           IF cmd.tx_id \in DOMAIN guard
           THEN [guard EXCEPT ![cmd.tx_id].in_dispute = TRUE] ELSE guard
      [] cmd.type_ = RESOLVE ->
           IF cmd.tx_id \in DOMAIN guard
           THEN [guard EXCEPT ![cmd.tx_id].in_dispute = FALSE] ELSE guard
      [] cmd.type_ = CHARGEBACK ->
           [t \in DOMAIN guard \ {cmd.tx_id} |-> guard[t]]
      [] cmd.type_ \in {DEPOSIT, WITHDRAWAL} ->
           (cmd.tx_id :> Transaction(cmd.type_, cmd.client_id, Some(amount), FALSE))
             @@ [t \in DOMAIN guard \ {cmd.tx_id} |-> guard[t]]

\* "insert into or update the history".
update_history(cmd, amount, guard) ==
    CASE cmd.type_ = DISPUTE ->
           IF cmd.tx_id \in DOMAIN guard
           THEN [guard EXCEPT ![cmd.tx_id].in_dispute = TRUE] ELSE guard
      [] cmd.type_ \in {RESOLVE, CHARGEBACK} ->
           IF cmd.tx_id \in DOMAIN guard
           THEN [guard EXCEPT ![cmd.tx_id].in_dispute = FALSE] ELSE guard
      [] cmd.type_ \in {DEPOSIT, WITHDRAWAL} ->
           (cmd.tx_id :> Transaction(cmd.type_, cmd.client_id, Some(amount), FALSE))
             @@ [t \in DOMAIN guard \ {cmd.tx_id} |-> guard[t]]

\* do_cmd as a function of the command and the two stores:
\* [result, balances, history] after the call.
Outcome(r, b, h) ==
    [result |-> r, balances |-> b, history |-> h]

DoCmd_amount_first(cmd, history, bals) ==
    LET a == resolve_amount(cmd, history)
    IN  IF cmd.type_ \notin {DEPOSIT, WITHDRAWAL, DISPUTE, RESOLVE, CHARGEBACK}
        THEN Outcome("UnknownTransationType", bals, history)
        ELSE IF a.err # "Ok" THEN Outcome(a.err, bals, history)
        ELSE IF a.amount # None /\ check_amount(a.amount[1]) # "Ok"
        THEN Outcome(check_amount(a.amount[1]), bals, history)
        ELSE IF check_transaction(cmd, history) # "Ok"
        THEN Outcome(check_transaction(cmd, history), bals, history)
        ELSE IF a.amount = None
        THEN Outcome("UnknownTransationType", bals, history)
        ELSE
        LET amount == a.amount[1]
            p == or_insert(bals, cmd.client_id)
            nb == new_balance(cmd.type_, p[cmd.client_id], amount)
        IN  IF nb.err # "Ok" THEN Outcome(nb.err, p, history)
            ELSE Outcome("Ok",
                         [p EXCEPT ![cmd.client_id] = nb.bal],
                         update_history(cmd, amount, history))

DoCmd(cmd, history, bals) ==
    LET e1 == check_transaction(cmd, history)
    IN  IF e1 # "Ok" THEN Outcome(e1, bals, history)
        ELSE
        LET a == resolve_amount(cmd, history)
        IN  IF a.err # "Ok" THEN Outcome(a.err, bals, history)
            ELSE IF a.amount = None
            THEN Outcome("UnknownTransationType", bals, history)
            ELSE
            LET amount == a.amount[1]
                e2 == check_amount(amount)
            IN  IF e2 # "Ok" THEN Outcome(e2, bals, history)
                ELSE
                LET p == or_insert(bals, cmd.client_id)
                    nb == new_balance(cmd.type_, p[cmd.client_id], amount)
                IN  IF nb.err # "Ok" THEN Outcome(nb.err, p, history)
                    ELSE Outcome("Ok",
                                 [p EXCEPT ![cmd.client_id] = nb.bal],
                                 update_history(cmd, amount, history))

\* ------------------------------------------------------------------ state
VARIABLES
    balances,             \* HashMap<ClientIdType, Balance>
    transaction_history,  \* HashMap<TransactionIdType, Transaction>
    chargedback,          \* the tx ids a chargeback has been applied to so far
    file,                 \* the rows of the input source (args[1])
    pos,                  \* the number of rows the producer has read
    producer,             \* task h: "open", "read", "done" (Ok) or "failed" (Err)
    channel,              \* the commands sent and not yet received
    consumer,             \* task g: "recv", "report", "rows" or "done"
    calls,                \* the do_cmd calls in progress: [cmd, at, amount]
    history_lock,         \* the RwLock of transaction_history
    balances_lock,        \* the RwLock of balances
    main_task,            \* main: "join_producer", "join_consumer", "exit_ok", "exit_err"
    stdout,               \* the lines printed so far
    started,              \* the commands do_cmd was called for, in call order
    log                   \* the calls that returned: [cmd, result], in return order

stores == <<balances, transaction_history, chargedback>>

tasks ==
    <<file, pos, producer, channel, consumer, calls, history_lock,
      balances_lock, main_task, stdout, started, log>>

vars == <<stores, tasks>>

\* tokio::sync::RwLock: any number of readers or one writer.
RwLock_new == [readers |-> 0, writer |-> FALSE]

can_read(lock) == ~lock.writer

can_write(lock) == ~lock.writer /\ lock.readers = 0

write(lock) == [lock EXCEPT !.writer = TRUE]

\* The state main creates before and while it spawns the two tasks, for the
\* input source f.
TasksInit(f) ==
    /\ file = f
    /\ pos = 0
    /\ producer = "open"
    /\ channel = << >>
    /\ consumer = "recv"
    /\ calls = << >>
    /\ history_lock = RwLock_new
    /\ balances_lock = RwLock_new
    /\ main_task = "join_producer"
    /\ stdout = << >>
    /\ started = << >>
    /\ log = << >>

StoresInit ==
    /\ balances = << >>
    /\ transaction_history = << >>
    /\ chargedback = {}

\* The command processor on its own: empty stores, no input source.
Init ==
    /\ StoresInit
    /\ TasksInit(<< >>)

\* One iteration of the consumer loop: do_cmd on the received command.
do_cmd(c) ==
    \E o \in {DoCmd(c, transaction_history, balances)} :
        /\ balances' = o.balances
        /\ transaction_history' = o.history
        /\ chargedback' = IF o.result = "Ok" /\ c.type_ = CHARGEBACK
                          THEN chargedback \cup {c.tx_id} ELSE chargedback
        /\ UNCHANGED tasks

Deposit == \E c \in Commands(DEPOSIT) : do_cmd(c)

Withdrawal == \E c \in Commands(WITHDRAWAL) : do_cmd(c)

Dispute == \E c \in Commands(DISPUTE) : do_cmd(c)

Resolve == \E c \in Commands(RESOLVE) : do_cmd(c)

Chargeback == \E c \in Commands(CHARGEBACK) : do_cmd(c)

Unknown == \E c \in Commands(OTHER_KIND) : do_cmd(c)

Next ==
    \/ Deposit
    \/ Withdrawal
    \/ Dispute
    \/ Resolve
    \/ Chargeback
    \/ Unknown

Spec == Init /\ [][Next]_vars

\* --------------------------------------------- producer, consumer and main
\* The longest input source.
MaxRows == 3

\* The rows of the input sources: Some(cmd) for a row that deserializes to a
\* Command, None for one that does not. A deposit, a withdrawal by a client
\* without funds, a dispute of the deposit and a malformed row.
InputRows ==
    {Some(Command(DEPOSIT, 1, 1, Some(LIT_B))),
     Some(Command(WITHDRAWAL, 2, 2, Some(LIT_A))),
     Some(Command(DISPUTE, 1, 1, None)),
     None}

Files == UNION {[1..n -> InputRows] : n \in 0..MaxRows}

\* The runtime polls the tasks until main returns.
Running == main_task \in {"join_producer", "join_consumer"}

\* ingress is dropped when task h returns.
ChannelClosed == producer \in {"done", "failed"}

\* A do_cmd call: its command, where it is, and the amount once resolved.
Call(cmd, at, amount) == [cmd |-> cmd, at |-> at, amount |-> amount]

WithoutCall(i) ==
    SubSeq(calls, 1, i - 1) \o SubSeq(calls, i + 1, Len(calls))

\* The consumer awaits do_cmd: it polls the channel again when the call has
\* returned.
consumer_detached ==
    TRUE

consumer_ready ==
    calls = << >>

\* Where the consumer loop goes when do_cmd has returned result.
after_call_stop_on_error(result) ==
    IF result = "Ok" THEN "recv" ELSE "report"

after_call(result) ==
    "recv"

\* do_cmd call i returns result (an error is reported on stderr).
Return(i, result) ==
    /\ calls' = WithoutCall(i)
    /\ log' = Append(log, [cmd |-> calls[i].cmd, result |-> result])
    /\ consumer' = after_call(result)

\* File::open(&args[1]).await succeeds.
OpenSource ==
    /\ Running
    /\ producer = "open"
    /\ producer' = "read"
    /\ UNCHANGED <<stores, file, pos, channel, consumer, calls, history_lock,
                   balances_lock, main_task, stdout, started, log>>

\* File::open(&args[1]).await fails: task h returns the error.
OpenFails ==
    /\ Running
    /\ producer = "open"
    /\ producer' = "failed"
    /\ UNCHANGED <<stores, file, pos, channel, consumer, calls, history_lock,
                   balances_lock, main_task, stdout, started, log>>

\* records.next().await yields a row: a command is sent, an error is printed.
ReadRow ==
    /\ Running
    /\ producer = "read"
    /\ pos < Len(file)
    /\ pos' = pos + 1
    /\ IF file[pos + 1] # None
       THEN /\ channel' = Append(channel, file[pos + 1][1])
            /\ UNCHANGED stdout
       ELSE /\ stdout' = Append(stdout, <<"error">>)
            /\ UNCHANGED channel
    /\ UNCHANGED <<stores, file, producer, consumer, calls, history_lock,
                   balances_lock, main_task, started, log>>

\* records.next().await yields None: task h returns Ok(()).
EndOfSource ==
    /\ Running
    /\ producer = "read"
    /\ pos = Len(file)
    /\ producer' = "done"
    /\ UNCHANGED <<stores, file, pos, channel, consumer, calls, history_lock,
                   balances_lock, main_task, stdout, started, log>>

\* egress.recv().await yields Some(cmd): do_cmd is called.
Receive ==
    /\ Running
    /\ consumer = "recv"
    /\ consumer_ready
    /\ channel # << >>
    /\ channel' = Tail(channel)
    /\ calls' = Append(calls, Call(Head(channel), "validate", None))
    /\ started' = Append(started, Head(channel))
    /\ UNCHANGED <<stores, file, pos, producer, consumer, history_lock,
                   balances_lock, main_task, stdout, log>>

\* do_cmd, "check the transaction logic first", under the history read guard.
Validate(i) ==
    /\ Running
    /\ calls[i].at = "validate"
    /\ can_read(history_lock)
    /\ \E e \in {check_transaction(calls[i].cmd, transaction_history)} :
          IF e # "Ok"
          THEN Return(i, e)
          ELSE /\ calls' = [calls EXCEPT ![i].at = "amount"]
               /\ UNCHANGED <<consumer, log>>
    /\ UNCHANGED <<stores, file, pos, producer, channel, history_lock,
                   balances_lock, main_task, stdout, started>>

\* do_cmd, the amount of the operation and check_amount; the dispute family
\* reads the history. No amount ends the call with UnknownTransationType.
ResolveAmount(i) ==
    /\ Running
    /\ calls[i].at = "amount"
    /\ calls[i].cmd.type_ \in {DISPUTE, RESOLVE, CHARGEBACK} => can_read(history_lock)
    /\ \E a \in {resolve_amount(calls[i].cmd, transaction_history)} :
          IF a.err # "Ok" THEN Return(i, a.err)
          ELSE IF a.amount = None THEN Return(i, "UnknownTransationType")
          ELSE IF check_amount(a.amount[1]) # "Ok"
          THEN Return(i, check_amount(a.amount[1]))
          ELSE /\ calls' = [calls EXCEPT ![i].at = "apply", ![i].amount = a.amount]
               /\ UNCHANGED <<consumer, log>>
    /\ UNCHANGED <<stores, file, pos, producer, channel, history_lock,
                   balances_lock, main_task, stdout, started>>

\* do_cmd under the balances write guard: the entry of the client and the
\* ledger operation. An error drops the guard; a new balance is stored and
\* the guard kept while the call waits for the history write guard.
Apply(i) ==
    /\ Running
    /\ calls[i].at = "apply"
    /\ can_write(balances_lock)
    /\ LET cmd == calls[i].cmd
           p   == or_insert(balances, cmd.client_id)
       IN  \E nb \in {new_balance(cmd.type_, p[cmd.client_id], calls[i].amount[1])} :
              IF nb.err # "Ok"
              THEN /\ balances' = p
                   /\ Return(i, nb.err)
                   /\ UNCHANGED balances_lock
              ELSE /\ balances' = [p EXCEPT ![cmd.client_id] = nb.bal]
                   /\ balances_lock' = write(balances_lock)
                   /\ calls' = [calls EXCEPT ![i].at = "commit"]
                   /\ UNCHANGED <<consumer, log>>
    /\ UNCHANGED <<transaction_history, chargedback, file, pos, producer,
                   channel, history_lock, main_task, stdout, started>>

\* do_cmd under the history write guard: "insert into or update the history",
\* then both guards are dropped and the call returns Ok.
Commit(i) ==
    /\ Running
    /\ calls[i].at = "commit"
    /\ can_write(history_lock)
    /\ transaction_history' =
         update_history(calls[i].cmd, calls[i].amount[1], transaction_history)
    /\ chargedback' = IF calls[i].cmd.type_ = CHARGEBACK
                      THEN chargedback \cup {calls[i].cmd.tx_id} ELSE chargedback
    /\ balances_lock' = RwLock_new
    /\ Return(i, "Ok")
    /\ UNCHANGED <<balances, file, pos, producer, channel, history_lock,
                   main_task, stdout, started>>

\* egress.recv().await yields None: the channel is closed and empty.
ReceiveNone ==
    /\ Running
    /\ consumer = "recv"
    /\ consumer_ready
    /\ channel = << >>
    /\ ChannelClosed
    /\ consumer' = "report"
    /\ UNCHANGED <<stores, file, pos, producer, channel, calls, history_lock,
                   balances_lock, main_task, stdout, started, log>>

\* println!("client,available,held, total, locked").
PrintHeader ==
    /\ Running
    /\ consumer = "report"
    /\ stdout' = Append(stdout, <<"header">>)
    /\ consumer' = "rows"
    /\ UNCHANGED <<stores, file, pos, producer, channel, calls, history_lock,
                   balances_lock, main_task, started, log>>

\* The orders a HashMap of the keys S can iterate in.
Orders(S) ==
    {o \in [1..Cardinality(S) -> S] : \A i, j \in DOMAIN o : o[i] = o[j] => i = j}

\* One line per account, under the balances read guard.
PrintRows ==
    /\ Running
    /\ consumer = "rows"
    /\ can_read(balances_lock)
    /\ \E o \in Orders(DOMAIN balances) :
          stdout' = stdout \o [i \in DOMAIN o |-> <<"row", o[i], balances[o[i]]>>]
    /\ consumer' = "done"
    /\ UNCHANGED <<stores, file, pos, producer, channel, calls, history_lock,
                   balances_lock, main_task, started, log>>

\* h.await.unwrap()?: main goes on when task h returned Ok and returns the
\* error when it returned Err; the runtime then stops the tasks.
JoinProducer ==
    /\ main_task = "join_producer"
    /\ ChannelClosed
    /\ main_task' = IF producer = "done" THEN "join_consumer" ELSE "exit_err"
    /\ UNCHANGED <<stores, file, pos, producer, channel, consumer, calls,
                   history_lock, balances_lock, stdout, started, log>>

\* g.await.unwrap(); Ok(()).
JoinConsumer ==
    /\ main_task = "join_consumer"
    /\ consumer = "done"
    /\ main_task' = "exit_ok"
    /\ UNCHANGED <<stores, file, pos, producer, channel, consumer, calls,
                   history_lock, balances_lock, stdout, started, log>>

ProducerTask == OpenSource \/ OpenFails \/ ReadRow \/ EndOfSource

\* The steps of the do_cmd calls in progress.
Validation == \E i \in DOMAIN calls : Validate(i)

AmountResolution == \E i \in DOMAIN calls : ResolveAmount(i)

LedgerOperation == \E i \in DOMAIN calls : Apply(i)

HistoryUpdate == \E i \in DOMAIN calls : Commit(i)

DoCmdCall == Validation \/ AmountResolution \/ LedgerOperation \/ HistoryUpdate

ConsumerTask == Receive \/ DoCmdCall \/ ReceiveNone \/ PrintHeader \/ PrintRows

MainTask == JoinProducer \/ JoinConsumer

PipelineInit ==
    /\ StoresInit
    /\ \E f \in Files : TasksInit(f)

PipelineNext ==
    \/ OpenSource
    \/ OpenFails
    \/ ReadRow
    \/ EndOfSource
    \/ Receive
    \/ Validation
    \/ AmountResolution
    \/ LedgerOperation
    \/ HistoryUpdate
    \/ ReceiveNone
    \/ PrintHeader
    \/ PrintRows
    \/ JoinProducer
    \/ JoinConsumer

\* main with its two tasks, in any interleaving.
Pipeline == PipelineInit /\ [][PipelineNext]_vars

\* The same under the fair scheduling of the runtime: a task that can make a
\* step is eventually polled.
FairPipeline ==
    /\ Pipeline
    /\ WF_vars(ProducerTask)
    /\ WF_vars(ConsumerTask)
    /\ WF_vars(MainTask)

\* ---------------------------------------------------------------- claims
AllCommands == UNION {Commands(t) : t \in Kinds}

Postings == Commands(DEPOSIT) \cup Commands(WITHDRAWAL)

Settlements == Commands(RESOLVE) \cup Commands(CHARGEBACK)

\* What do_cmd returns, and leaves in the stores, for command c in this state.
Run(c) == DoCmd(c, transaction_history, balances)

\* The step from this state to the next is do_cmd on c, with outcome r.
StepOf(c, r) ==
    /\ r = Run(c)
    /\ balances' = r.balances
    /\ transaction_history' = r.history

\* The stores are left exactly as they are, with result e.
Rejected(c, e) ==
    Run(c) = Outcome(e, balances, transaction_history)

Locked(k) == k \in DOMAIN balances /\ balances[k].locked

\* The number of characters written after the decimal point of an amount string.
RECURSIVE FractionalDigits(_)
FractionalDigits(str) ==
    IF Len(str) = 0 THEN 0
    ELSE IF Head(str) = "." THEN Len(str) - 1
    ELSE FractionalDigits(Tail(str))

\* A decimal of scale <= MAX_SCALE in units of 10^-MAX_SCALE.
Units(d) == d.m * Pow10(MAX_SCALE - d.s)

\* Decimal::from_str_radix on each of the amount strings, tabulated.
LiteralValues == [l \in Literals |-> from_str_radix(l)]

\* The amount string of c is a well-formed number.
Parses(c) ==
    c.amount # None /\ LiteralValues[c.amount[1]].err = "Ok"

Value(c) == LiteralValues[c.amount[1]].val

\* C1: after any sequence of commands from the empty stores, every account of
\* the ledger has available >= 0 and held >= 0.
C1_BalancesNonNegative ==
    \A k \in DOMAIN balances :
        /\ balances[k].avail.m >= 0
        /\ balances[k].held.m >= 0

\* C1 witness: a client has withdrawn all it had available.
C1_Witness ==
    \E k \in DOMAIN balances :
        /\ balances[k].avail.m = 0
        /\ \E t \in DOMAIN transaction_history :
              /\ transaction_history[t].type_ = WITHDRAWAL
              /\ transaction_history[t].client_id = k

\* A command that passes the referential validation and the amount checks, so
\* that do_cmd calls the ledger operation for it.
ReachesLedger(c) ==
    LET h == transaction_history
    IN  \/ /\ c.type_ \in {DEPOSIT, WITHDRAWAL}
           /\ c.tx_id \notin DOMAIN h
           /\ Parses(c)
           /\ FractionalDigits(c.amount[1]) <= MAX_SCALE
           /\ Value(c).m > 0
        \/ /\ c.type_ = DISPUTE
           /\ c.tx_id \in DOMAIN h
           /\ h[c.tx_id].type_ = DEPOSIT
           /\ h[c.tx_id].client_id = c.client_id
           /\ ~h[c.tx_id].in_dispute
        \/ /\ c.type_ \in {RESOLVE, CHARGEBACK}
           /\ c.tx_id \in DOMAIN h
           /\ h[c.tx_id].in_dispute

\* C2 as stated: every command for a locked client fails with LockedBalance and
\* leaves the account as it is.
C2_LockedAlwaysLockedBalance ==
    \A c \in AllCommands :
        Locked(c.client_id) =>
            /\ Run(c).result = "LockedBalance"
            /\ Run(c).balances[c.client_id] = balances[c.client_id]

\* C2 amended, in every state: a command for a locked client fails and changes
\* neither store; it fails with LockedBalance exactly when it passes the
\* referential validation and the amount checks, and with the error of the
\* earlier check otherwise.
C2_LockedCommandsFail ==
    \A c \in AllCommands :
        Locked(c.client_id) =>
            \A r \in {Run(c)} :
                /\ r.result # "Ok"
                /\ r.balances = balances
                /\ r.history = transaction_history
                /\ r.result = "LockedBalance" <=> ReachesLedger(c)

\* C2 amended, in every step: a locked account stays locked and its available
\* and held funds never change again.
C2_LockedStaysLocked ==
    \A k \in DOMAIN balances :
        balances[k].locked =>
            /\ k \in DOMAIN balances'
            /\ balances'[k] = balances[k]

\* C2 amended: once locked always locked and unchanged, and every later command
\* for the client fails (with LockedBalance when it reaches the ledger).
C2_LockMonotone ==
    [](C2_LockedCommandsFail) /\ [][C2_LockedStaysLocked]_vars

\* C2 witness: a locked client for whom one command fails with LockedBalance and
\* another with the error of an earlier check.
C2_Witness ==
    \E c \in Commands(WITHDRAWAL), d \in Commands(DEPOSIT) :
        /\ Locked(c.client_id)
        /\ d.client_id = c.client_id
        /\ Run(c).result = "LockedBalance"
        /\ Run(d).result = "TransactionAlreadyExist"

\* C3: a deposit or withdrawal whose tx_id is already in the history, whoever
\* posted it and disputed or not, fails with TransactionAlreadyExist and changes
\* no balance and no record.
C3_DuplicateRejected ==
    \A c \in Postings :
        c.tx_id \in DOMAIN transaction_history =>
            Rejected(c, "TransactionAlreadyExist")

\* C3, in every step: the record of a tx_id is never replaced by another
\* posting (its kind, client and amount stay).
C3_RecordKept ==
    \A t \in DOMAIN transaction_history :
        /\ t \in DOMAIN transaction_history'
        /\ transaction_history'[t].type_ = transaction_history[t].type_
        /\ transaction_history'[t].client_id = transaction_history[t].client_id
        /\ transaction_history'[t].amount = transaction_history[t].amount

\* C3: duplicates are rejected without effect, hence one record per tx_id.
C3_DuplicateId ==
    [](C3_DuplicateRejected) /\ [][C3_RecordKept]_vars

\* C3 witness: a disputed deposit whose id another client tries to reuse for a
\* withdrawal.
C3_Witness ==
    \E c \in Commands(WITHDRAWAL) :
        /\ c.tx_id \in DOMAIN transaction_history
        /\ transaction_history[c.tx_id].in_dispute
        /\ transaction_history[c.tx_id].client_id # c.client_id
        /\ Parses(c) /\ Value(c).m > 0
        /\ Run(c).result = "TransactionAlreadyExist"

\* C4: a dispute is validated in the order not found, wrong kind, wrong client,
\* already in dispute, and each of these failures changes no balance and no
\* record.
C4_DisputeValidationOrder ==
    \A c \in Commands(DISPUTE) :
        LET h == transaction_history
            t == c.tx_id
        IN  /\ t \notin DOMAIN h => Rejected(c, "ReferenceTransactionNotFound")
            /\ t \in DOMAIN h =>
                 /\ h[t].type_ # DEPOSIT =>
                      Rejected(c, "ReferenceTransactionTypeIncorrect")
                 /\ h[t].type_ = DEPOSIT /\ h[t].client_id # c.client_id =>
                      Rejected(c, "ReferenceTransactionIncorrect")
                 /\ h[t].type_ = DEPOSIT /\ h[t].client_id = c.client_id
                      /\ h[t].in_dispute =>
                      Rejected(c, "TransactionAlreadyInDispute")

\* C4 witness: the history holds a withdrawal of one client, which another
\* client disputes: wrong kind and wrong client at once, and the kind is
\* reported.
C4_Witness ==
    \E c \in Commands(DISPUTE) :
        /\ c.tx_id \in DOMAIN transaction_history
        /\ transaction_history[c.tx_id].type_ = WITHDRAWAL
        /\ transaction_history[c.tx_id].client_id # c.client_id
        /\ Run(c).result = "ReferenceTransactionTypeIncorrect"

\* C5, in every state: a resolve or chargeback of an absent record fails with
\* ReferenceTransactionNotFound, of a record not in dispute with
\* ReferenceTransactionStateIncorrect; one that succeeds found the record in
\* dispute and leaves it not in dispute.
C5_SettleValidation ==
    \A c \in Settlements :
        LET h == transaction_history
            t == c.tx_id
        IN  /\ t \notin DOMAIN h => Rejected(c, "ReferenceTransactionNotFound")
            /\ t \in DOMAIN h /\ ~h[t].in_dispute =>
                 Rejected(c, "ReferenceTransactionStateIncorrect")
            /\ \A r \in {Run(c)} :
                 r.result = "Ok" =>
                     /\ t \in DOMAIN h
                     /\ h[t].in_dispute
                     /\ ~r.history[t].in_dispute

\* C5, in every step: a record comes to be in dispute only by a dispute command
\* naming it that succeeds.
C5_OnlyDisputeOpens ==
    \A t \in DOMAIN transaction_history' :
        (/\ transaction_history'[t].in_dispute
         /\ ~(t \in DOMAIN transaction_history /\ transaction_history[t].in_dispute))
        => \E c \in Commands(DISPUTE) :
              /\ c.tx_id = t
              /\ \E r \in {Run(c)} : r.result = "Ok" /\ StepOf(c, r)

\* C5: resolve and chargeback need an existing record in dispute, so a
\* transaction is not settled twice without a dispute in between.
C5_SettleOnlyInDispute ==
    [](C5_SettleValidation) /\ [][C5_OnlyDisputeOpens]_vars

\* C5 witness: a transaction that was charged back and is charged back again,
\* which fails with ReferenceTransactionStateIncorrect.
C5_Witness ==
    \E c \in Commands(CHARGEBACK) :
        /\ c.tx_id \in chargedback
        /\ ~transaction_history[c.tx_id].in_dispute
        /\ Run(c).result = "ReferenceTransactionStateIncorrect"

\* C6 as stated, for one step: a command for which do_cmd returns an error
\* leaves the ledger (its set of clients and every entry) and the history
\* exactly as they were.
C6_FailedStepKeepsStores ==
    \A c \in AllCommands :
        \A r \in {Run(c)} :
            (r.result # "Ok" /\ StepOf(c, r)) =>
                /\ balances' = balances
                /\ transaction_history' = transaction_history

\* C6 as stated: no command that fails mutates anything.
C6_FailedCommandMutatesNothing ==
    [][C6_FailedStepKeepsStores]_vars

\* C7 as stated, for one step: a dispute, resolve or chargeback that is applied
\* names a deposit record owned by the command's client.
C7_AppliedStepOwnsRecord ==
    \A c \in Commands(DISPUTE) \cup Settlements :
        \A r \in {Run(c)} :
            (r.result = "Ok" /\ StepOf(c, r)) =>
                /\ c.tx_id \in DOMAIN transaction_history
                /\ transaction_history[c.tx_id].type_ = DEPOSIT
                /\ transaction_history[c.tx_id].client_id = c.client_id

\* C7 as stated: dispute-family commands only act on the owner's own deposits.
C7_DisputeFamilyOwnsRecord ==
    [][C7_AppliedStepOwnsRecord]_vars

\* C8 as stated: a transaction that a chargeback was applied to is never in
\* dispute again (no later dispute naming it succeeds).
C8_ChargedBackTerminal ==
    \A t \in chargedback : ~transaction_history[t].in_dispute

\* The account of client k, a new one for a client without an entry.
AccountOf(bals, k) ==
    IF k \in DOMAIN bals THEN bals[k] ELSE Balance_new

\* A posting with an amount of at most MAX_SCALE fractional digits is never
\* rejected for its precision and, when applied, moves exactly that amount of
\* available funds and records it.
ExactPosting(c) ==
    \A r \in {Run(c)} :
        /\ r.result # "DecimalFormatError"
        /\ r.result = "Ok" =>
             /\ Units(r.balances[c.client_id].avail) =
                  Units(AccountOf(balances, c.client_id).avail)
                    + (IF c.type_ = DEPOSIT THEN 1 ELSE -1) * Units(Value(c))
             /\ r.balances[c.client_id].held = AccountOf(balances, c.client_id).held
             /\ r.history[c.tx_id].amount = Some(Value(c))

\* C9 as stated: an amount of more than 4 fractional digits makes the deposit
\* or withdrawal fail with DecimalFormatError without effect; one of at most 4
\* is taken exactly.
C9_PrecisionAsStated ==
    \A c \in Postings :
        Parses(c) =>
            /\ FractionalDigits(c.amount[1]) > MAX_SCALE =>
                 Rejected(c, "DecimalFormatError")
            /\ FractionalDigits(c.amount[1]) <= MAX_SCALE => ExactPosting(c)

\* C9 amended: for a deposit or withdrawal with an unused tx_id, an amount of
\* more than 4 fractional digits (zeros included) fails with DecimalFormatError
\* and changes neither store; an amount of at most 4 fractional digits is never
\* rejected for its precision and, when the command is applied, is added or
\* subtracted exactly.
C9_Precision ==
    \A c \in Postings :
        Parses(c) =>
            /\ (/\ FractionalDigits(c.amount[1]) > MAX_SCALE
                /\ c.tx_id \notin DOMAIN transaction_history) =>
                 Rejected(c, "DecimalFormatError")
            /\ FractionalDigits(c.amount[1]) <= MAX_SCALE => ExactPosting(c)

\* C9 witness: 1000.0001 and 499.9999 were deposited and the client has
\* 1500.0000 (15000000 at scale 4) available.
C9_Witness ==
    \E k \in DOMAIN balances :
        /\ balances[k].avail = Dec(15000000, 4)
        /\ \A t \in TxIds :
              /\ t \in DOMAIN transaction_history
              /\ transaction_history[t].type_ = DEPOSIT
              /\ transaction_history[t].client_id = k

\* Every stored record has an amount, and it is > 0.
RecordsPositive ==
    \A t \in DOMAIN transaction_history :
        /\ transaction_history[t].amount # None
        /\ transaction_history[t].amount[1].m > 0

\* C10 as stated: a deposit or withdrawal with an unused tx_id and an amount
\* that is zero or negative fails with AmountNotPositive without effect, so
\* every record has amount > 0.
C10_NonPositiveAsStated ==
    /\ \A c \in Postings :
          (/\ c.tx_id \notin DOMAIN transaction_history
           /\ Parses(c)
           /\ Value(c).m <= 0) => Rejected(c, "AmountNotPositive")
    /\ RecordsPositive

\* C10 amended: a deposit or withdrawal with an unused tx_id and an amount of at
\* most 4 fractional digits that is zero or negative fails with
\* AmountNotPositive before any ledger operation: no account is created or
\* changed and no record inserted, so every record has amount > 0.
C10_NonPositive ==
    /\ \A c \in Postings :
          (/\ c.tx_id \notin DOMAIN transaction_history
           /\ Parses(c)
           /\ FractionalDigits(c.amount[1]) <= MAX_SCALE
           /\ Value(c).m <= 0) => Rejected(c, "AmountNotPositive")
    /\ RecordsPositive

\* C10 witness: with a record posted, a client without an account posts a zero
\* amount under an unused tx_id and is rejected with AmountNotPositive.
C10_Witness ==
    /\ transaction_history # << >>
    /\ \E c \in Postings :
          /\ c.tx_id \notin DOMAIN transaction_history
          /\ c.client_id \notin DOMAIN balances
          /\ c.amount = Some(LIT_ZERO)
          /\ Rejected(c, "AmountNotPositive")

\* The funds of client k in the ledger bals, by value: available and held in
\* units of 10^-MAX_SCALE, and the lock.
Funds(bals, k) ==
    LET b == AccountOf(bals, k)
    IN  [avail |-> Units(b.avail), held |-> Units(b.held), locked |-> b.locked]

\* total = available + held of client k in the ledger bals.
Total(bals, k) == Funds(bals, k).avail + Funds(bals, k).held

\* C11 as stated: when a dispute of a deposit is applied and a resolve of the
\* same transaction is applied next, the account of the deposit's owner has
\* the available, held and locked it had before the dispute, and neither step
\* changes the owner's total.
C11_DisputeResolveRestores ==
    \A d \in Commands(DISPUTE) :
        \A r1 \in {Run(d)} :
            r1.result = "Ok" =>
                /\ Total(r1.balances, d.client_id) = Total(balances, d.client_id)
                /\ \A s \in Commands(RESOLVE) :
                      s.tx_id = d.tx_id =>
                          \A r2 \in {DoCmd(s, r1.history, r1.balances)} :
                              r2.result = "Ok" =>
                                  /\ Funds(r2.balances, d.client_id)
                                       = Funds(balances, d.client_id)
                                  /\ Total(r2.balances, d.client_id)
                                       = Total(r1.balances, d.client_id)

\* The table of the ledger operations on the funds f of an unlocked account,
\* for an amount of a > 0 units: [ok, funds], ok being the precondition.
Tabulated(t, f, a) ==
    CASE t = DEPOSIT ->
           [ok |-> TRUE, funds |-> [f EXCEPT !.avail = f.avail + a]]
      [] t = WITHDRAWAL ->
           [ok |-> f.avail >= a, funds |-> [f EXCEPT !.avail = f.avail - a]]
      [] t = DISPUTE ->
           [ok |-> f.avail >= a,
            funds |-> [f EXCEPT !.avail = f.avail - a, !.held = f.held + a]]
      [] t = RESOLVE ->
           [ok |-> f.held >= a,
            funds |-> [f EXCEPT !.avail = f.avail + a, !.held = f.held - a]]
      [] t = CHARGEBACK ->
           [ok |-> f.held >= a,
            funds |-> [f EXCEPT !.held = f.held - a, !.locked = TRUE]]

\* The funds of one account, by value.
FundsOf(b) ==
    [avail |-> Units(b.avail), held |-> Units(b.held), locked |-> b.locked]

\* C15, in every state: on every unlocked account of the ledger (and on a new
\* one) each of the five operations with an amount > 0 gives the tabulated
\* balance when its precondition holds, and otherwise fails with
\* FundsInsufficientForGivenOperation and returns no new balance.
C15_LedgerTable ==
    \A k \in ClientIds, lit \in {LIT_A, LIT_B} :
        \A t \in {DEPOSIT, WITHDRAWAL, DISPUTE, RESOLVE, CHARGEBACK} :
            LET b  == AccountOf(balances, k)
                a  == to_decimal(lit).val
                nb == new_balance(t, b, a)
                tb == Tabulated(t, FundsOf(b), Units(a))
            IN  ~b.locked =>
                    IF tb.ok
                    THEN nb.err = "Ok" /\ FundsOf(nb.bal) = tb.funds
                    ELSE nb = Failed("FundsInsufficientForGivenOperation", b)

\* C15, in every step: an account whose lock changes was unlocked (or absent)
\* and is locked by a chargeback of that client applied in this step.
C15_OnlyChargebackLocks ==
    \A k \in DOMAIN balances' :
        balances'[k].locked # AccountOf(balances, k).locked =>
            /\ balances'[k].locked
            /\ \E c \in Commands(CHARGEBACK) :
                  /\ c.client_id = k
                  /\ Run(c).result = "Ok"
                  /\ StepOf(c, Run(c))

\* C15: the ledger operations follow the table, and only an applied chargeback
\* of the client changes locked.
C15_LedgerOperations ==
    [](C15_LedgerTable) /\ [][C15_OnlyChargebackLocks]_vars

\* C15 witness: a chargeback was applied to an account that keeps available
\* funds and has nothing held: it is locked and its available is as before.
C15_Witness ==
    \E k \in DOMAIN balances :
        /\ chargedback # {}
        /\ balances[k].locked
        /\ balances[k].avail.m > 0
        /\ balances[k].held.m = 0
        /\ \E t \in DOMAIN transaction_history :
              /\ transaction_history[t].client_id = k
              /\ ~transaction_history[t].in_dispute
              /\ Units(transaction_history[t].amount[1]) = Units(balances[k].avail)

\* C16, in every state: a dispute, resolve or chargeback naming an unused tx_id
\* leaves the history as it is (it inserts no record).
C16_NoInsertByDisputeFamily ==
    \A c \in Commands(DISPUTE) \cup Settlements :
        c.tx_id \notin DOMAIN transaction_history =>
            Run(c).history = transaction_history

\* C16, in every step: every record stays, with its kind, client and amount;
\* its in_dispute flag changes only to true by an applied dispute naming it and
\* only to false by an applied resolve or chargeback naming it; a new record is
\* the one an applied deposit or withdrawal inserts, not in dispute.
C16_RecordStep ==
    /\ \A t \in DOMAIN transaction_history :
          /\ t \in DOMAIN transaction_history'
          /\ [transaction_history'[t] EXCEPT !.in_dispute = FALSE]
               = [transaction_history[t] EXCEPT !.in_dispute = FALSE]
          /\ transaction_history'[t].in_dispute # transaction_history[t].in_dispute =>
                \E c \in Commands(DISPUTE) \cup Settlements :
                    /\ c.tx_id = t
                    /\ Run(c).result = "Ok"
                    /\ StepOf(c, Run(c))
                    /\ transaction_history'[t].in_dispute <=> c.type_ = DISPUTE
    /\ \A t \in DOMAIN transaction_history' \ DOMAIN transaction_history :
          \E c \in Postings :
              /\ c.tx_id = t
              /\ Run(c).result = "Ok"
              /\ StepOf(c, Run(c))
              /\ transaction_history'[t] =
                   Transaction(c.type_, c.client_id, Some(Value(c)), FALSE)

\* C16: records are immutable but for in_dispute, which only the dispute family
\* toggles on the record it names, and only postings insert records.
C16_RecordImmutable ==
    [](C16_NoInsertByDisputeFamily) /\ [][C16_RecordStep]_vars

\* C16 witness: a deposit has been disputed and charged back, its record is
\* still there and out of dispute, and a dispute names a tx_id that is not used.
C16_Witness ==
    /\ \E u \in chargedback :
          /\ transaction_history[u].type_ = DEPOSIT
          /\ ~transaction_history[u].in_dispute
    /\ \E c \in Commands(DISPUTE) :
          /\ c.tx_id \notin DOMAIN transaction_history
          /\ Rejected(c, "ReferenceTransactionNotFound")

\* The records owned by client k that are in dispute.
OpenDisputes(k) ==
    {t \in DOMAIN transaction_history :
        /\ transaction_history[t].client_id = k
        /\ transaction_history[t].in_dispute}

\* The sum of the amounts of the records S, in units of 10^-MAX_SCALE.
RECURSIVE SumAmounts(_)
SumAmounts(S) ==
    IF S = {} THEN 0
    ELSE LET t == CHOOSE x \in S : TRUE
         IN  Units(transaction_history[t].amount[1]) + SumAmounts(S \ {t})

\* C17 as stated: for every client, held is the sum of the amounts of the
\* client's records that are in dispute.
C17_HeldBackedByDisputes ==
    \A k \in ClientIds :
        Funds(balances, k).held = SumAmounts(OpenDisputes(k))

\* The amount of posting c is missing, not a number, of more than MAX_SCALE
\* fractional digits, or not positive.
BadAmount(c) ==
    \/ c.amount = None
    \/ ~Parses(c)
    \/ FractionalDigits(c.amount[1]) > MAX_SCALE
    \/ Value(c).m <= 0

\* C18: a deposit or withdrawal that reuses a tx_id of the history and has a
\* missing, malformed, over-precise or non-positive amount, or whose client is
\* locked, fails with TransactionAlreadyExist and changes nothing; and a
\* dispute, resolve or chargeback of a locked client that fails the validation
\* of the history gets the validation error, not LockedBalance.
C18_PhaseOnePrecedence ==
    /\ \A c \in Postings :
          (/\ c.tx_id \in DOMAIN transaction_history
           /\ (BadAmount(c) \/ Locked(c.client_id))) =>
              Rejected(c, "TransactionAlreadyExist")
    /\ \A c \in Commands(DISPUTE) \cup Settlements :
          (Locked(c.client_id) /\ ~ReachesLedger(c)) =>
              /\ Rejected(c, check_transaction(c, transaction_history))
              /\ Run(c).result \in {"ReferenceTransactionNotFound",
                                    "ReferenceTransactionTypeIncorrect",
                                    "ReferenceTransactionIncorrect",
                                    "TransactionAlreadyInDispute",
                                    "ReferenceTransactionStateIncorrect"}

\* C18 witness: a locked client reuses a tx_id of the history for a deposit of
\* an over-precise amount and for a withdrawal without amount; both fail with
\* TransactionAlreadyExist.
C18_Witness ==
    \E c \in Commands(DEPOSIT), d \in Commands(WITHDRAWAL) :
        /\ Locked(c.client_id)
        /\ d.client_id = c.client_id
        /\ c.tx_id \in DOMAIN transaction_history
        /\ d.tx_id \in DOMAIN transaction_history
        /\ c.amount = Some(LIT_OVER)
        /\ d.amount = None
        /\ Run(c).result = "TransactionAlreadyExist"
        /\ Run(d).result = "TransactionAlreadyExist"

\* The amount of record t, in units of 10^-MAX_SCALE.
RecordUnits(t) == Units(transaction_history[t].amount[1])

\* Dispute d names a deposit of its own client that is not in dispute, and the
\* client's account is unlocked and has the deposit's amount available.
Disputable(d) ==
    /\ d.tx_id \in DOMAIN transaction_history
    /\ transaction_history[d.tx_id].type_ = DEPOSIT
    /\ transaction_history[d.tx_id].client_id = d.client_id
    /\ ~transaction_history[d.tx_id].in_dispute
    /\ ~Locked(d.client_id)
    /\ Funds(balances, d.client_id).avail >= RecordUnits(d.tx_id)

\* C19, the record after a resolve: an applied resolve leaves the record as it
\* was posted, not in dispute.
C19_ResolvedIsPosted ==
    \A s \in Commands(RESOLVE) :
        \A r \in {Run(s)} :
            r.result = "Ok" =>
                r.history[s.tx_id] =
                    [transaction_history[s.tx_id] EXCEPT !.in_dispute = FALSE]

\* C19, dispute again: whatever happened to a deposit before, when it is not in
\* dispute and its owner is unlocked with the amount available, the owner's
\* dispute is applied, and the owner's chargeback right after it is applied
\* too: the record leaves dispute and the account is locked.
C19_DisputeAgain ==
    \A d \in Commands(DISPUTE) :
        Disputable(d) =>
            \A r1 \in {Run(d)} :
                /\ r1.result = "Ok"
                /\ r1.history[d.tx_id].in_dispute
                /\ \A cb \in Commands(CHARGEBACK) :
                      (cb.tx_id = d.tx_id /\ cb.client_id = d.client_id) =>
                          \A r2 \in {DoCmd(cb, r1.history, r1.balances)} :
                              /\ r2.result = "Ok"
                              /\ ~r2.history[d.tx_id].in_dispute
                              /\ r2.balances[d.client_id].locked
                              /\ Funds(r2.balances, d.client_id).held
                                   = Funds(balances, d.client_id).held

\* C19, the amount: an applied dispute, resolve or chargeback moves the amount
\* of the record it names, as the table of the operation says, and the amount
\* written in the command makes no difference.
C19_RecordAmountMoved ==
    \A c \in Commands(DISPUTE) \cup Settlements :
        \A r \in {Run(c)} :
            /\ r = DoCmd([c EXCEPT !.amount = None], transaction_history, balances)
            /\ r.result = "Ok" =>
                 Funds(r.balances, c.client_id) =
                     Tabulated(c.type_, Funds(balances, c.client_id),
                               RecordUnits(c.tx_id)).funds

\* C19: a resolved deposit is a posted one again and can be disputed again and
\* charged back by its owner; the dispute family always moves the record's
\* amount.
C19_ReDispute ==
    /\ C19_ResolvedIsPosted
    /\ C19_DisputeAgain
    /\ C19_RecordAmountMoved

\* C19 witness: the only record is a deposit that is out of dispute with no
\* chargeback applied so far, and its owner's held is 0.0000, of the scale of
\* the amount: the deposit was disputed and resolved. The owner disputes it
\* again with another amount written in the command, with success.
C19_Witness ==
    \E d \in Commands(DISPUTE) :
        /\ DOMAIN transaction_history = {d.tx_id}
        /\ Disputable(d)
        /\ chargedback = {}
        /\ balances[d.client_id].held = Dec(0, MAX_SCALE)
        /\ d.amount = Some(LIT_A)
        /\ RecordUnits(d.tx_id) # Units(to_decimal(LIT_A).val)
        /\ Run(d).result = "Ok"

\* C20 as stated: do_cmd answers UnknownTransationType exactly for the commands
\* whose kind is none of the five, and for those it changes neither store.
C20_UnknownKindOnly ==
    \A c \in AllCommands :
        LET known == c.type_ \in {DEPOSIT, WITHDRAWAL, DISPUTE, RESOLVE, CHARGEBACK}
        IN  /\ Run(c).result = "UnknownTransationType" <=> ~known
            /\ ~known => Rejected(c, "UnknownTransationType")

\* The commands of the rows, in order (malformed rows are skipped).
RECURSIVE CommandsOf(_)
CommandsOf(rows) ==
    IF rows = << >> THEN << >>
    ELSE IF Head(rows) = None THEN CommandsOf(Tail(rows))
    ELSE <<Head(rows)[1]>> \o CommandsOf(Tail(rows))

\* The commands the producer has sent so far, in send order.
Sent == CommandsOf(SubSeq(file, 1, pos))

\* do_cmd applied to the commands cmds one after the other, each as a whole,
\* from empty stores: the outcome of the last one.
RECURSIVE Replay(_)
Replay(cmds) ==
    IF cmds = << >> THEN Outcome("Ok", << >>, << >>)
    ELSE \* the stores after all but the last command
         LET before == Replay(SubSeq(cmds, 1, Len(cmds) - 1))
         IN  DoCmd(cmds[Len(cmds)], before.history, before.balances)

\* C12, in every state: at most one do_cmd call is in progress; the commands
\* are started in the order they were sent and the others wait in the channel;
\* all commands started before the one in progress have returned, in order;
\* and between two calls the stores and the results are those of running the
\* started commands one after the other, each as a whole.
C12_OneAtATime ==
    /\ Len(calls) <= 1
    /\ Sent = started \o channel
    /\ Len(started) = Len(log) + Len(calls)
    /\ \A i \in DOMAIN log :
          /\ log[i].cmd = started[i]
          /\ log[i].result = Replay(SubSeq(started, 1, i)).result
    /\ calls = << >> =>
          /\ balances = Replay(started).balances
          /\ transaction_history = Replay(started).history

\* C12, in every step: a command starts only when no call is in progress and
\* every command started before it has returned (committed or failed), and it
\* is the oldest command of the channel.
C12_StartsAfterPrevious ==
    started' # started =>
        /\ calls = << >>
        /\ Len(log) = Len(started)
        /\ channel # << >>
        /\ started' = Append(started, Head(channel))
        /\ balances_lock = RwLock_new

\* C12: the consumer processes the commands one at a time, in send order.
C12_SerialInOrder ==
    [](C12_OneAtATime) /\ [][C12_StartsAfterPrevious]_vars

\* C12 witness: the first command has failed, the second one has written its
\* balance and waits for the history, and the third one waits in the channel.
C12_Witness ==
    /\ Len(log) = 1
    /\ log[1].result # "Ok"
    /\ Len(calls) = 1
    /\ calls[1].at = "commit"
    /\ calls[1].cmd # log[1].cmd
    /\ Len(channel) = 1

\* C13, in every state: the consumer is past its loop only when the producer
\* has returned, the channel is empty and every command sent has returned from
\* do_cmd; a call that returned an error left the consumer in its loop.
C13_ReportAfterDrain ==
    consumer \in {"report", "rows", "done"} =>
        /\ ChannelClosed
        /\ channel = << >>
        /\ calls = << >>
        /\ Len(log) = Len(Sent)

\* The process has ended: main has returned.
Terminated == main_task \in {"exit_ok", "exit_err"}

\* C13, under fair scheduling: the run ends, and from some point on every
\* command sent has been processed, whatever the results of the commands
\* before it; the report comes only after the channel is closed and drained,
\* and a run that ends without error has processed every command of the
\* source and printed the report.
C13_EverySentProcessed ==
    /\ [](C13_ReportAfterDrain)
    /\ <>[](Terminated /\ Len(log) = Len(Sent))
    /\ [](main_task = "exit_ok" =>
            /\ consumer = "done"
            /\ Len(log) = Len(CommandsOf(file)))

\* C13 witness: the run has ended with the report printed, after a command
\* that failed and a later one that was applied.
C13_Witness ==
    /\ main_task = "exit_ok"
    /\ \E i \in DOMAIN stdout : stdout[i] = <<"header">>
    /\ \E i, j \in DOMAIN log :
          /\ i < j
          /\ log[i].result # "Ok"
          /\ log[j].result = "Ok"

\* C14 as stated: in a run whose producer failed to open the source, neither
\* the header nor a row of the report is ever printed.
C14_NoReportOnOpenFailure ==
    producer = "failed" =>
        \A i \in DOMAIN stdout : stdout[i][1] \notin {"header", "row"}

====
